---- MODULE Spec2Model ----
(***************************************************************************)
(* MapBoxWrapper (src/mapboxwrapper/mapboxwrapper_class.py).               *)
(*                                                                         *)
(* One instance of the class is modelled.  Its fields are the variables;   *)
(* its two mutating public methods, add_feature and output_html, are the   *)
(* actions.  Text (the template, the fragments, the written document) is a *)
(* sequence of string tokens: a placeholder is one token, so re.sub with   *)
(* count=1 is "replace the first occurrence of the token" and str.replace  *)
(* is "replace every occurrence".  Python values whose str() is written    *)
(* into the document (lists, tuples, dicts) are rendered token by token by *)
(* PyStr, PyStrDict and PyStrCoords, which keep the difference between     *)
(* brackets and parentheses and between one clause and three atoms.        *)
(* An exception is the handler's result "raised"; the fields assigned      *)
(* before the raising line keep their new values, as in Python.            *)
(***************************************************************************)
EXTENDS Integers, Sequences, FiniteSets, TLC

VARIABLES
    template,             \* self.template
    features,             \* self.features
    geojson_features,     \* self.geojson_features
    geojson_filter_types, \* self.geojson_filter_types
    layers,               \* self.layers
    layerids,             \* self.layerids
    all_coords,           \* self.all_coords
    geojson,              \* self.geojson       (set by output_html)
    source,               \* self.source        (set by output_html)
    prop_dict,            \* self.prop_dict     (set by output_html)
    html,                 \* self.html = the text written to output_path
    added_ok,             \* history: the records whose add_feature returned
    noutput,              \* history: number of output_html calls made
    last                  \* history: the last call, its arguments and result

vars == << template, features, geojson_features, geojson_filter_types, layers,
           layerids, all_coords, geojson, source, prop_dict, html,
           added_ok, noutput, last >>

(***************************************************************************)
(* Bounds of the exploration.                                              *)
(***************************************************************************)
\* slot capacity handed to the constructor (the code's default is 200)
markers == 3
\* add_feature is offered while the feature list is shorter than this
MaxFeatures == 3
\* output_html is called at most this many times on the instance
MaxOutputs == 2

\* MARGIN = 0.01; coordinates are counted in hundredths of a degree
MARGIN == 1

(***************************************************************************)
(* Class constants.                                                        *)
(***************************************************************************)
SOURCE_NAME == "all_data"

FEATURE_KEYS == << "id_", "geojson_type", "colour", "properties", "array" >>

FILTER_DICT ==
    [ Point |-> "Point", MultiPoint |-> "Point",
      LineString |-> "LineString", MultiLineString |-> "LineString" ]

\* python values: a str, an int, a list or a tuple
PyS(s) == [ tag |-> "str", v |-> s, items |-> << >> ]
PyI(s) == [ tag |-> "int", v |-> s, items |-> << >> ]
PyList(xs) == [ tag |-> "list", v |-> "", items |-> xs ]
PyTuple(xs) == [ tag |-> "tuple", v |-> "", items |-> xs ]

LAYER_FILTERS ==
    [ Point |-> PyList(<< PyS("=="), PyS("$type"), PyS("Point") >>),
      LineString |-> PyList(<< PyS("=="), PyS("$type"), PyS("LineString") >>) ]

\* str() of the paint dict is one token per family: the dicts are constants
LAYER_STYLES ==
    [ Point |->
        [ vector_type |-> "circle",
          paint |-> "{'circle-color': ['get', 'colour'], 'circle-radius': ['case', ['has', 'circle-radius'], ['get', 'circle-radius'], 3]}" ],
      LineString |->
        [ vector_type |-> "line",
          paint |-> "{'line-color': ['get', 'colour'], 'line-width': 1, 'line-opacity': 0.5}" ] ]

(***************************************************************************)
(* str() of python values, as token sequences.                             *)
(***************************************************************************)
RECURSIVE Concat(_, _, _)
\* parts[lo] \o ... \o parts[hi]
Concat(parts, lo, hi) ==
    IF lo > hi THEN << >>
    ELSE IF lo = hi THEN parts[lo]
    ELSE Concat(parts, lo, (lo + hi) \div 2) \o Concat(parts, (lo + hi) \div 2 + 1, hi)

\* sep.join(parts) where every part is a token sequence
JoinTokens(parts, sep) ==
    Concat([ i \in 1..Len(parts) |-> IF i = 1 THEN parts[i] ELSE << sep >> \o parts[i] ],
           1, Len(parts))

RECURSIVE PyStr(_)
\* str(x) for a str inside a container (repr), an int, a list, a tuple
PyStr(x) ==
    CASE x.tag = "str" -> << "'" \o x.v \o "'" >>
      [] x.tag = "int" -> << x.v >>
      [] x.tag = "list" ->
            << "[" >> \o JoinTokens([ i \in 1..Len(x.items) |-> PyStr(x.items[i]) ], ", ")
                   \o << "]" >>
      [] x.tag = "tuple" ->
            << "(" >> \o JoinTokens([ i \in 1..Len(x.items) |-> PyStr(x.items[i]) ], ", ")
                   \o (IF Len(x.items) = 1 THEN << ",)" >> ELSE << ")" >>)

\* str(d) of a dict of str keys and str values; d is its item list in
\* insertion order
PyStrDict(d) ==
    << "{" >> \o JoinTokens([ i \in 1..Len(d) |->
                               << "'" \o d[i][1] \o "': '" \o d[i][2] \o "'" >> ], ", ")
           \o << "}" >>

\* str([lon, lat])
PyStrPair(p) == << "[" \o ToString(p[1]) \o ", " \o ToString(p[2]) \o "]" >>

\* str(lonlat): one pair for a Point, a list of pairs otherwise
PyStrCoords(geojson_type, array) ==
    IF geojson_type = "Point" THEN PyStrPair(array[1])
    ELSE << "[" >> \o JoinTokens([ i \in 1..Len(array) |-> PyStrPair(array[i]) ], ", ")
                \o << "]" >>

(***************************************************************************)
(* dict helpers; a dict is the sequence of its (key, value) items.         *)
(***************************************************************************)
DictHas(d, k) == \E i \in 1..Len(d) : d[i][1] = k

DictValue(d, k) == d[CHOOSE i \in 1..Len(d) : d[i][1] = k][2]

\* d.get(k, False), with False and a falsy value both given as ""
DictGet(d, k) == IF DictHas(d, k) THEN DictValue(d, k) ELSE ""

\* d[k] = v
DictSet(d, k, v) ==
    IF DictHas(d, k)
    THEN [ i \in 1..Len(d) |-> IF d[i][1] = k THEN << k, v >> ELSE d[i] ]
    ELSE Append(d, << k, v >>)

RECURSIVE DictMerge(_, _)
\* {**d1, **d2}
DictMerge(d1, d2) ==
    IF d2 = << >> THEN d1
    ELSE DictMerge(DictSet(d1, d2[1][1], d2[1][2]), Tail(d2))

(***************************************************************************)
(* The records handed to add_feature.  keys is list(feature); array is the *)
(* list of [lon, lat] pairs (a Point's array is its single pair).          *)
(***************************************************************************)
Rec(id, type, props, arr) ==
    [ keys |-> FEATURE_KEYS, id_ |-> id, geojson_type |-> type,
      colour |-> "#0f0", properties |-> props, array |-> arr ]

PointA == Rec("p1", "Point", << << "node", "A" >> >>, << << 0, 0 >> >>)
PointB == Rec("p2", "Point", << << "node", "B" >> >>, << << 4, 2 >> >>)
LineB == Rec("l1", "MultiLineString", << << "node", "B" >> >>,
             << << 0, 0 >>, << 2, 6 >> >>)
\* the grouping property is present and falsy
LineBlank == Rec("l2", "LineString", << << "node", "" >> >>,
                 << << 2, 2 >>, << 4, 4 >> >>)
\* a geometry type FILTER_DICT does not know; no properties
Polygon == Rec("g1", "Polygon", << >>, << << 0, 0 >>, << 2, 0 >>, << 2, 2 >> >>)

\* the five keys in another order
Permuted == [ PointA EXCEPT !.keys =
                << "array", "id_", "geojson_type", "colour", "properties" >> ]
\* 'array' is missing
MissingKey == [ PointA EXCEPT !.keys =
                  << "id_", "geojson_type", "colour", "properties" >> ]
\* one key too many
ExtraKey == [ PointA EXCEPT !.keys = Append(FEATURE_KEYS, "radius") ]

WellKeyed == { PointA, PointB, LineB, LineBlank, Polygon }
Records == WellKeyed \cup { Permuted, MissingKey, ExtraKey }

KeySet(feature) == { feature.keys[i] : i \in 1..Len(feature.keys) }
RequiredKeys == { FEATURE_KEYS[i] : i \in 1..Len(FEATURE_KEYS) }

(***************************************************************************)
(* add_feature                                                             *)
(***************************************************************************)
\* the instance as one value
Self ==
    [ template |-> template, features |-> features,
      geojson_features |-> geojson_features,
      geojson_filter_types |-> geojson_filter_types,
      layers |-> layers, layerids |-> layerids, all_coords |-> all_coords,
      geojson |-> geojson, source |-> source, prop_dict |-> prop_dict,
      html |-> html ]

RECURSIVE Ravel(_)
\* np.ravel(array).tolist()
Ravel(array) ==
    IF array = << >> THEN << >> ELSE array[1] \o Ravel(Tail(array))

\* a mutation of SchemaOk: every required key is looked for, extras ignored
SchemaOkSubset(feature) == RequiredKeys \subseteq KeySet(feature)

\* list(feature) == self.FEATURE_KEYS
SchemaOk(feature) == feature.keys = FEATURE_KEYS

\* _create_geojson_feature(**feature)
CreateGeojsonFeature(feature) ==
    LET all_props == DictMerge(<< << "colour", feature.colour >> >>, feature.properties)
    IN  << "{'type': 'Feature',\n'id': '" \o feature.id_ \o "',\n'properties': " >>
        \o PyStrDict(all_props)
        \o << ",", "\n'geometry': {\n\t'type': '" \o feature.geojson_type
                   \o "',\n\t'coordinates':" >>
        \o PyStrCoords(feature.geojson_type, feature.array)
        \o << "}\n}" >>

\* add_feature(feature) run on instance s: the instance afterwards and the
\* exception raised ("None" when the call returns)
AddFeatureRun(s, feature) ==
    IF ~SchemaOk(feature)
    THEN [ self |-> s, raised |-> "AttributeError" ]
    ELSE
      LET coord == IF feature.geojson_type /= "Point"
                   THEN Ravel(feature.array) ELSE feature.array[1]
          s1 == [ s EXCEPT !.all_coords = @ \o coord,
                           !.features = Append(@, feature),
                           !.geojson_features = Append(@, CreateGeojsonFeature(feature)) ]
      IN  IF feature.geojson_type \notin DOMAIN FILTER_DICT
          THEN [ self |-> s1, raised |-> "KeyError" ]
          ELSE [ self |-> [ s1 EXCEPT !.geojson_filter_types =
                                        Append(@, FILTER_DICT[feature.geojson_type]) ],
                 raised |-> "None" ]

\* list_features()
list_features == features

(***************************************************************************)
(* Text substitution on token sequences.                                   *)
(***************************************************************************)
\* text with every token equal to tok replaced by the tokens repl:
\* text.replace(tok, repl) and re.sub(tok, repl, text)
ReplaceAll(text, tok, repl) ==
    Concat([ i \in 1..Len(text) |-> IF text[i] = tok THEN repl ELSE << text[i] >> ],
           1, Len(text))

\* re.sub(tok, repl, text, count=1): the leftmost occurrence only
ReplaceFirst(text, tok, repl) ==
    LET hits == { i \in 1..Len(text) : text[i] = tok }
    IN  IF hits = { } THEN text
        ELSE LET k == CHOOSE i \in hits : \A j \in hits : i <= j
             IN  SubSeq(text, 1, k - 1) \o repl \o SubSeq(text, k + 1, Len(text))

\* text.replace(tok + "\n\n", ""): tok directly followed by the blank line
RemoveSlots(text, tok) ==
    LET slot(i) == i < Len(text) /\ text[i] = tok /\ text[i + 1] = "\n\n"
    IN  Concat([ i \in 1..Len(text) |->
                   IF slot(i) \/ (i > 1 /\ slot(i - 1)) THEN << >> ELSE << text[i] >> ],
               1, Len(text))

RECURSIVE Repeat(_, _)
\* text * n
Repeat(text, n) == IF n <= 0 THEN << >> ELSE text \o Repeat(text, n - 1)

Count(text, tok) == Cardinality({ i \in 1..Len(text) : text[i] = tok })

(***************************************************************************)
(* The files the constructor and output_html read.  Their text is not part *)
(* of the sources at hand; the placeholders they hold are the ones the     *)
(* interface description lists.                                            *)
(***************************************************************************)
DarkTemplateFile ==
    << "<script>mapboxgl.accessToken = '", "__MAPBOX_ACCESS_TOKEN__",
       "';\nvar map = new mapboxgl.Map({center: ", "__FILLINCENTER__",
       ", maxBounds: ", "__FILLINBOUNDS__", "});\nmap.on('load', function () {\n",
       "__SOURCEMARKERS__", "__LAYERMARKERS__", "});\n",
       "__FILLINTOGGLESCRIPT__", "</script>" >>

AccessTokenFile == << "pk.token" >>

ToggleTemplateFile ==
    << "var toggleableLayerIds = ", "__FILLINLAYERIDS__", ";\n" >>

PrefixedToggleTemplateFile ==
    << "var toggleableLayerIds = ", "__FILLINLAYERIDS__", ";\nvar prefixes = ",
       "__FILLINLAYERPROPERTY__", ";\n" >>

Placeholders ==
    { "__FILLINSOURCE__", "__FILLINLAYER__", "__FILLINTOGGLESCRIPT__",
      "__FILLINCENTER__", "__FILLINBOUNDS__", "__FILLINLAYERIDS__",
      "__FILLINLAYERPROPERTY__" }

\* _read_template(access_token_path, template_path, source_markers, layer_markers)
ReadTemplate(source_markers, layer_markers) ==
    LET t1 == ReplaceAll(DarkTemplateFile, "__MAPBOX_ACCESS_TOKEN__", AccessTokenFile)
        t2 == ReplaceAll(t1, "__SOURCEMARKERS__",
                         Repeat(<< "__FILLINSOURCE__", "\n\n" >>, source_markers))
    IN  ReplaceAll(t2, "__LAYERMARKERS__",
                   Repeat(<< "__FILLINLAYER__", "\n\n" >>, layer_markers))

(***************************************************************************)
(* Bounds Calculator                                                       *)
(***************************************************************************)
RECURSIVE SumSeq(_)
SumSeq(xs) == IF xs = << >> THEN 0 ELSE xs[1] + SumSeq(Tail(xs))

MinOf(S) == CHOOSE x \in S : \A y \in S : x <= y
MaxOf(S) == CHOOSE x \in S : \A y \in S : y <= x

\* _find_center_and_bounds(); coords is the non-empty flat [lon, lat, ...]
\* list.  The mean is kept exact, as the pair (sum, count).
FindCenterAndBounds(coords) ==
    LET n == Len(coords) \div 2
        lons == [ i \in 1..n |-> coords[2 * i - 1] ]
        lats == [ i \in 1..n |-> coords[2 * i] ]
        lonS == { lons[i] : i \in 1..n }
        latS == { lats[i] : i \in 1..n }
    IN  [ center |-> << << SumSeq(lons), n >>, << SumSeq(lats), n >> >>,
          bounds |-> << << MinOf(lonS) - MARGIN, MinOf(latS) - MARGIN >>,
                        << MaxOf(lonS) + MARGIN, MaxOf(latS) + MARGIN >> >> ]

\* _add_center_and_bounds(template), for a non-empty coordinate list
AddCenterAndBounds(t, coords) ==
    LET cb == FindCenterAndBounds(coords)
        c == << "[" \o ToString(cb.center[1][1]) \o "/" \o ToString(cb.center[1][2])
                    \o ", " \o ToString(cb.center[2][1]) \o "/"
                    \o ToString(cb.center[2][2]) \o "]" >>
        b == << "[" >> \o PyStrPair(cb.bounds[1]) \o << ", " >>
                       \o PyStrPair(cb.bounds[2]) \o << "]" >>
    IN  ReplaceAll(ReplaceAll(t, "__FILLINCENTER__", c), "__FILLINBOUNDS__", b)

(***************************************************************************)
(* Fragments                                                               *)
(***************************************************************************)
\* _create_geojson_from_features(features)
CreateGeojsonFromFeatures(frags) ==
    << "{'type': 'geojson'\n, 'data': {'type': 'FeatureCollection',\n'features': [" >>
    \o JoinTokens(frags, ",\n") \o << "]}}" >>

\* _create_source(name, geojson)
CreateSource(name, gj) ==
    << "map.addSource('" \o name \o "', " >> \o gj \o << ");\n        " >>

\* _create_layer(layer_id, vector_type, source_name, paint, filter); the
\* filter handed over is a non-empty list, so the filter line is present
CreateLayer(layer_id, vector_type, source_name, paint, filter) ==
    << "map.addLayer({'id': '", layer_id,
       "',\n        'type': '" \o vector_type \o "',\n        'source': '"
           \o source_name \o "',\n        'paint': ",
       paint, ",\n        'layout': {'visibility': 'visible'}",
       ",\n\t\t'filter': " >>
    \o PyStr(filter) \o << "\n        });\n        " >>

\* _add_source(template, source_str)
AddSource(t, source_str) == ReplaceFirst(t, "__FILLINSOURCE__", source_str)

\* _add_layer(template, layer_str)
AddLayer(t, layer_str) == ReplaceFirst(t, "__FILLINLAYER__", layer_str)

\* a mutation of WriteFilledTemplate: the unused layer slots are not stripped
WriteFilledTemplateSourceOnly(t) == RemoveSlots(t, "__FILLINSOURCE__")

\* _write_filled_template(path, filled_template): the text written
WriteFilledTemplate(t) ==
    RemoveSlots(RemoveSlots(t, "__FILLINSOURCE__"), "__FILLINLAYER__")

(***************************************************************************)
(* Layer Planner                                                           *)
(***************************************************************************)
\* the order np.unique puts the two families in
SortedFamilies == << "LineString", "Point" >>

\* np.unique(types): the distinct entries, sorted
Unique(types) ==
    SelectSeq(SortedFamilies, LAMBDA f : \E i \in 1..Len(types) : types[i] = f)

\* type_.lower()
Lower(type_) == IF type_ = "Point" THEN "point" ELSE "linestring"

RECURSIVE FindPropertyTypesLoop(_, _, _)
\* the loop of _find_property_types over feats, from the dict d so far
FindPropertyTypesLoop(feats, property_, d) ==
    IF feats = << >> THEN [ dict |-> d, raised |-> "None" ]
    ELSE
      LET feat == feats[1]
          prop == DictGet(feat.properties, property_)
      IN  IF prop = "" THEN FindPropertyTypesLoop(Tail(feats), property_, d)
          ELSE IF feat.geojson_type \notin DOMAIN FILTER_DICT
               THEN [ dict |-> d, raised |-> "KeyError" ]
          ELSE
            LET fam == FILTER_DICT[feat.geojson_type]
                d1 == IF ~DictHas(d, prop) THEN DictSet(d, prop, << fam >>)
                      ELSE DictSet(d, prop, Append(DictValue(d, prop), fam))
            IN  FindPropertyTypesLoop(Tail(feats), property_, d1)

\* _find_property_types(property_)
FindPropertyTypes(feats, property_) ==
    LET r == FindPropertyTypesLoop(feats, property_, << >>)
    IN  [ dict |-> [ i \in 1..Len(r.dict) |-> << r.dict[i][1], Unique(r.dict[i][2]) >> ],
          raised |-> r.raised ]

RECURSIVE PairsOf(_)
\* the (value_, type_) pairs the two nested loops of output_html visit
PairsOf(d) ==
    IF d = << >> THEN << >>
    ELSE [ j \in 1..Len(d[1][2]) |-> << d[1][1], d[1][2][j] >> ] \o PairsOf(Tail(d))

\* the keys of a dict, in order
Keys(d) == [ i \in 1..Len(d) |-> d[i][1] ]

\* a mutation of NormalizeFilters: a flat clause is not wrapped
NormalizeFiltersNoWrap(filters) == filters

\* output_html lines 80-85: a non-empty filters whose first entry is not a
\* list becomes [filters]
NormalizeFilters(filters) ==
    IF filters.items /= << >> /\ filters.items[1].tag /= "list"
    THEN PyList(<< filters >>)
    ELSE filters

\* the layer id of one pass of the loop
LayerId(layer_property, pair) ==
    IF layer_property /= "" THEN pair[1] \o "_" \o Lower(pair[2])
    ELSE pair[2] \o "_layer"

\* the head of the filter expression of one pass, before "+ filters"
FilterHead(layer_property, pair) ==
    IF layer_property /= ""
    THEN << PyS("all"),
            PyList(<< PyS("=="), PyS(layer_property), PyS(pair[1]) >>),
            LAYER_FILTERS[pair[2]] >>
    ELSE << PyS("all"), LAYER_FILTERS[pair[2]] >>

RECURSIVE LayerLoop(_, _, _, _, _)
\* the layer loop of output_html (lines 94-105 and 111-119) over the pairs
\* left; created is the ids of the layers built so far by this call.
\* list + tuple raises TypeError after the id has been appended.
LayerLoop(s, pairs, layer_property, filters, created) ==
    IF pairs = << >> THEN [ self |-> s, raised |-> "None", created |-> created ]
    ELSE
      LET lid == LayerId(layer_property, pairs[1])
          s1 == [ s EXCEPT !.layerids = Append(@, lid) ]
      IN  IF filters.tag /= "list"
          THEN [ self |-> s1, raised |-> "TypeError", created |-> created ]
          ELSE
            LET style == LAYER_STYLES[pairs[1][2]]
                layer == CreateLayer(lid, style.vector_type, SOURCE_NAME, style.paint,
                                     PyList(FilterHead(layer_property, pairs[1])
                                            \o filters.items))
                s2 == [ s1 EXCEPT !.layers = Append(@, layer),
                                  !.template = AddLayer(@, layer) ]
            IN  LayerLoop(s2, Tail(pairs), layer_property, filters,
                          Append(created, lid))

(***************************************************************************)
(* Toggle script                                                           *)
(***************************************************************************)
\* str(list of str)
PyStrList(xs) == PyStr(PyList([ i \in 1..Len(xs) |-> PyS(xs[i]) ]))

\* _add_toggle_script(template, layerids, prefixes).  prefixes is
\* [given |-> FALSE] for None, else the keys of prop_dict; list(None)
\* raises TypeError.
AddToggleScript(t, ids, prefixes) ==
    LET file == IF prefixes.given /\ prefixes.keys /= << >>
                THEN PrefixedToggleTemplateFile ELSE ToggleTemplateFile
        ts1 == ReplaceAll(file, "__FILLINLAYERIDS__", PyStrList(ids))
    IN  IF ~prefixes.given
        THEN [ template |-> t, raised |-> "TypeError" ]
        ELSE [ template |->
                 ReplaceAll(t, "__FILLINTOGGLESCRIPT__",
                            ReplaceAll(ts1, "__FILLINLAYERPROPERTY__",
                                       PyStrList(prefixes.keys))),
               raised |-> "None" ]

(***************************************************************************)
(* output_html                                                             *)
(***************************************************************************)
\* what a call of output_html reports besides the instance: the exception
\* raised, the ids of the layers it built, whether it reached the toggle
\* script and with which id list, and the free slots it started with
OutputResult(s0, s, raised, created, handed, ids) ==
    [ self |-> s, raised |-> raised, created |-> created,
      handed |-> handed, ids |-> ids,
      free_source |-> Count(s0.template, "__FILLINSOURCE__"),
      free_layer |-> Count(s0.template, "__FILLINLAYER__") ]

\* output_html from the layer loop on (lines 94-125): s is the instance
\* after the source was added, s0 the instance the call started with
OutputLayers(s0, s, pairs, layer_property, filters, prefixes) ==
    LET loop == LayerLoop(s, pairs, layer_property, filters, << >>)
        s3 == loop.self
        tg == AddToggleScript(s3.template, s3.layerids, prefixes)
    IN  IF loop.raised /= "None"
        THEN OutputResult(s0, s3, loop.raised, loop.created, FALSE, << >>)
        ELSE IF tg.raised /= "None"
        THEN OutputResult(s0, s3, tg.raised, loop.created, TRUE, s3.layerids)
        ELSE
          LET s4 == [ s3 EXCEPT !.template = tg.template ]
          IN  OutputResult(s0, [ s4 EXCEPT !.html = WriteFilledTemplate(s4.template) ],
                           "None", loop.created, TRUE, s3.layerids)

\* output_html(output_path, layer_property, filters) run on instance s.
\* With no coordinates _find_center_and_bounds raises before anything is
\* assigned; which exception depends on the folium build (empty_exc).
OutputHtmlRun(s, layer_property, filters0, empty_exc) ==
    IF s.all_coords = << >>
    THEN OutputResult(s, s, empty_exc, << >>, FALSE, << >>)
    ELSE
      LET t1 == AddCenterAndBounds(s.template, s.all_coords)
          filters == NormalizeFilters(filters0)
          gj == CreateGeojsonFromFeatures(s.geojson_features)
          src == CreateSource(SOURCE_NAME, gj)
          s2 == [ s EXCEPT !.geojson = gj, !.source = src,
                           !.template = AddSource(t1, src) ]
      IN  IF layer_property /= ""
          THEN
            LET pt == FindPropertyTypes(s.features, layer_property)
            IN  IF pt.raised /= "None"
                THEN OutputResult(s, s2, pt.raised, << >>, FALSE, << >>)
                ELSE OutputLayers(s, [ s2 EXCEPT !.prop_dict = pt.dict ],
                                  PairsOf(pt.dict), layer_property, filters,
                                  [ given |-> TRUE, keys |-> Keys(pt.dict) ])
          ELSE
            LET fams == Unique(s.geojson_filter_types)
            IN  OutputLayers(s, s2, [ i \in 1..Len(fams) |-> << "", fams[i] >> ],
                             layer_property, filters,
                             [ given |-> FALSE, keys |-> << >> ])

(***************************************************************************)
(* The arguments the caller chooses from.                                  *)
(***************************************************************************)
\* filters=(), the default
NoFilters == PyTuple(<< >>)
\* filters=["==", "a", 1]
FlatClause == PyList(<< PyS("=="), PyS("a"), PyI("1") >>)
\* filters=[["==", "a", 1]]
ClauseList == PyList(<< FlatClause >>)

FilterArgs == { NoFilters, FlatClause, ClauseList }
\* layer_property="" is the default
PropertyArgs == { "", "node" }
EmptyBoundsErrors == { "ValueError", "TypeError" }

(***************************************************************************)
(* The state machine.                                                      *)
(***************************************************************************)
\* __init__(access_token_path, template_path, markers)
Init ==
    /\ template = ReadTemplate(markers, markers)
    /\ features = << >>
    /\ geojson_features = << >>
    /\ geojson_filter_types = << >>
    /\ layers = << >>
    /\ layerids = << >>
    /\ all_coords = << >>
    /\ geojson = << >>
    /\ source = << >>
    /\ prop_dict = << >>
    /\ html = << >>
    /\ added_ok = << >>
    /\ noutput = 0
    /\ last = [ op |-> "init" ]

\* the instance's fields become those of s
Becomes(s) ==
    /\ template' = s.template
    /\ features' = s.features
    /\ geojson_features' = s.geojson_features
    /\ geojson_filter_types' = s.geojson_filter_types
    /\ layers' = s.layers
    /\ layerids' = s.layerids
    /\ all_coords' = s.all_coords
    /\ geojson' = s.geojson
    /\ source' = s.source
    /\ prop_dict' = s.prop_dict
    /\ html' = s.html

\* The caller registers its records, each once, and then generates the
\* document: add_feature is offered until the first output_html.
add_feature ==
    /\ noutput = 0
    /\ Len(features) < MaxFeatures
    /\ \E feature \in Records \ { features[i] : i \in 1..Len(features) } :
         \E r \in { AddFeatureRun(Self, feature) } :
             /\ Becomes(r.self)
             /\ added_ok' = IF r.raised = "None" THEN Append(added_ok, feature)
                            ELSE added_ok
             /\ last' = [ op |-> "add", feature |-> feature, raised |-> r.raised ]
             /\ UNCHANGED noutput

output_html ==
    /\ noutput < MaxOutputs
    /\ \E layer_property \in PropertyArgs, filters \in FilterArgs,
          empty_exc \in (IF all_coords = << >> THEN EmptyBoundsErrors
                         ELSE { "ValueError" }) :
         \E r \in { OutputHtmlRun(Self, layer_property, filters, empty_exc) } :
             /\ Becomes(r.self)
             /\ noutput' = noutput + 1
             /\ last' = [ op |-> "output", layer_property |-> layer_property,
                          filters |-> filters, raised |-> r.raised,
                          created |-> r.created, handed |-> r.handed,
                          ids |-> r.ids, free_source |-> r.free_source,
                          free_layer |-> r.free_layer ]
             /\ UNCHANGED added_ok

Next == add_feature \/ output_html

Spec == Init /\ [][Next]_vars

(***************************************************************************)
(* What the claims speak about, stated from the registered features.       *)
(***************************************************************************)
InstanceFields ==
    << template, features, geojson_features, geojson_filter_types, layers,
       layerids, all_coords, geojson, source, prop_dict, html >>

ValidFeature(f) ==
    f.keys = FEATURE_KEYS /\ f.geojson_type \in DOMAIN FILTER_DICT

\* the family of feature f is fam
HasFamily(f, fam) ==
    f.geojson_type \in DOMAIN FILTER_DICT /\ FILTER_DICT[f.geojson_type] = fam

\* family + "_layer" for every family some registered feature has, sorted
ExpectedUngroupedIds ==
    LET fams == SelectSeq(SortedFamilies,
                          LAMBDA fam : \E i \in 1..Len(features) :
                                           HasFamily(features[i], fam))
    IN  [ i \in 1..Len(fams) |-> fams[i] \o "_layer" ]

\* the value feature i carries for property p ("" when absent or falsy)
ValueAt(i, p) == DictGet(features[i].properties, p)

\* the truthy values of p, in order of first appearance
ValuesInOrder(p) ==
    LET firsts == SelectSeq([ i \in 1..Len(features) |-> i ],
                            LAMBDA i : /\ ValueAt(i, p) /= ""
                                       /\ \A j \in 1..(i - 1) : ValueAt(j, p) /= ValueAt(i, p))
    IN  [ k \in 1..Len(firsts) |-> ValueAt(firsts[k], p) ]

\* value_<family lowercased> for every (value, family) pair some feature
\* has, by first appearance of the value and then by sorted family
ExpectedGroupedIds(p) ==
    LET vals == ValuesInOrder(p)
        idsOf(v) ==
            LET fams == SelectSeq(SortedFamilies,
                                  LAMBDA fam : \E i \in 1..Len(features) :
                                      ValueAt(i, p) = v /\ HasFamily(features[i], fam))
            IN  [ j \in 1..Len(fams) |->
                    v \o "_" \o (IF fams[j] = "Point" THEN "point" ELSE "linestring") ]
    IN  Concat([ k \in 1..Len(vals) |-> idsOf(vals[k]) ], 1, Len(vals))

\* the ids of the layer fragments in a text, in order
LayerIdsIn(text) ==
    LET at == SelectSeq([ i \in 1..Len(text) |-> i ],
                        LAMBDA i : text[i] = "map.addLayer({'id': '")
    IN  [ k \in 1..Len(at) |-> text[at[k] + 1] ]

\* the number of source fragments in a text
SourcesIn(text) ==
    Count(text, "map.addSource('" \o SOURCE_NAME \o "', ")

\* the last n entries of a sequence
LastN(xs, n) == SubSeq(xs, Len(xs) - n + 1, Len(xs))

(***************************************************************************)
(* Claims                                                                  *)
(***************************************************************************)
\* C1: list_features returns exactly the records whose add_feature call
\* succeeded, in the order they were added, each one unmodified.
C1_ListIsTheSucceededAdds == list_features = added_ok

\* C2: add_feature with a record that misses a required key or carries an
\* extra key raises the schema error and leaves every field of the instance
\* as it was.
C2_SchemaErrorKeepsState ==
    [][ (last'.op = "add" /\ KeySet(last'.feature) /= RequiredKeys)
        => (last'.raised = "AttributeError" /\ UNCHANGED InstanceFields) ]_vars

\* a record with an extra key was refused by an instance that holds features
C2_Witness ==
    /\ last.op = "add"
    /\ last.feature = ExtraKey
    /\ last.raised = "AttributeError"
    /\ Len(features) >= 1

\* C3: add_feature accepts a record whenever its set of keys equals the
\* required key set, whatever the order the record lists the keys in.
C3_AnyKeyOrderAccepted ==
    (last.op = "add" /\ KeySet(last.feature) = RequiredKeys
        /\ Len(last.feature.keys) = Len(FEATURE_KEYS))
    => last.raised /= "AttributeError"

\* C4: with at least one valid registered feature and no more layers
\* needed than there are slots, output_html runs to completion and writes
\* the document, for every combination of its optional arguments.
C4_OutputAlwaysWrites ==
    (/\ last.op = "output"
     /\ \E i \in 1..Len(features) : ValidFeature(features[i])
     /\ Len(ExpectedUngroupedIds) <= markers
     /\ Len(ExpectedGroupedIds("node")) <= markers)
    => last.raised = "None"

\* C5: in ungrouped mode the layer identifiers generated are family +
\* "_layer" for each distinct family of the registered features, in sorted
\* family order, with no duplicates in the layer identifier list.
C5_UngroupedLayerIds ==
    (last.op = "output" /\ last.layer_property = "")
    => layerids = ExpectedUngroupedIds

\* C6: in grouped mode output_html creates exactly one layer for each
\* (value, family) pair of the registered features that carry a truthy
\* value of the grouping property, named value_<family lowercased>, ordered
\* by first appearance of the value and then by sorted family.
C6_GroupedLayers ==
    (last.op = "output" /\ last.layer_property /= "")
    => last.created = ExpectedGroupedIds(last.layer_property)

\* C7: the document written depends only on the add_feature calls made
\* before and on the arguments of output_html; in particular a second
\* output_html call made on the same instance right after the first, with
\* the same arguments, writes the same document and hands over the same
\* layer identifier list.  (For two fresh instances this is OutputHtmlRun
\* being a function of the fields and the arguments.)
C7_RepeatedOutputIdentical ==
    [][ (/\ last.op = "output" /\ last'.op = "output"
         /\ last.raised = "None" /\ last'.raised = "None"
         /\ last'.layer_property = last.layer_property
         /\ last'.filters = last.filters
         /\ features' = features)
        => (html' = html /\ last'.ids = last.ids) ]_vars

\* C8: the document written by output_html holds no placeholder token;
\* when the free slots suffice, the source fragment and each layer fragment
\* of the call fill one slot each, in plan order, and no slot line is left.
C8_NoPlaceholderLeft ==
    (last.op = "output" /\ last.raised = "None")
    => /\ \A i \in 1..Len(html) : html[i] \notin Placeholders
       /\ (last.free_source >= 1 /\ last.free_layer >= Len(last.created))
          => /\ Count(template, "__FILLINSOURCE__") = last.free_source - 1
             /\ Count(template, "__FILLINLAYER__")
                  = last.free_layer - Len(last.created)
             /\ SourcesIn(html) = markers - last.free_source + 1
             /\ Len(LayerIdsIn(html)) = markers - last.free_layer + Len(last.created)
             /\ LastN(LayerIdsIn(html), Len(last.created)) = last.created

\* a document with three layers was written and unused slots were stripped
C8_Witness ==
    /\ last.op = "output"
    /\ last.raised = "None"
    /\ last.created = << "A_point", "B_linestring", "B_point" >>
    /\ Count(template, "__FILLINSOURCE__") >= 1
    /\ LayerIdsIn(html) = last.created

\* C9: output_html given the flat clause ["==", "a", 1] behaves as
\* output_html given [["==", "a", 1]]: from every state in which the call
\* is offered, and for either grouping argument, the two calls raise the
\* same exception or write the same document, build the same layers (the
\* clause appended as one clause) and leave the same instance.
C9_FlatClauseIsOneClause ==
    noutput < MaxOutputs
    => \A p \in PropertyArgs :
           OutputHtmlRun(Self, p, FlatClause, "ValueError")
             = OutputHtmlRun(Self, p, ClauseList, "ValueError")

\* the flat clause was given, the document was written, and the layer's
\* filter holds the clause as one bracketed entry after the two of its head
C9_Witness ==
    /\ last.op = "output"
    /\ last.filters = FlatClause
    /\ last.raised = "None"
    /\ Len(last.created) >= 1
    /\ Count(layers[Len(layers)], "[") = 4
    /\ LayerIdsIn(html) /= << >>

\* C10: after any sequence of add_feature calls the feature list, the
\* fragment list and the family list have the same length and describe the
\* same records, and a failed add_feature adds nothing to any of them.
C10_ListsAligned ==
    /\ Len(features) = Len(geojson_features)
    /\ Len(features) = Len(geojson_filter_types)
    /\ features = added_ok

====
